---- MODULE Spec2Model ----
(***************************************************************************)
(* Mark-to-market replay of a parsed trade ledger against a price series.  *)
(*                                                                         *)
(* The module follows periodData of src/src/components/Analytics.tsx and   *)
(* its older copy in src/unnamed/part_002: the ledger is copied and sorted *)
(* by time, every bar shifts the due trades off the sorted copy, applies   *)
(* them to openOrderMap / position / closedProfit, and is then valued.     *)
(* Around the replay: FileUploader.handleFile with parseBacktestHtml       *)
(* (src/vite.config.ts), which set the context's backtestData from an      *)
(* uploaded file and the price response, and calculateMetrics.             *)
(*                                                                         *)
(* Number representation (fixed point, exact):                             *)
(*   lots, position        thousandths of a lot    (1 lot   = 1000)       *)
(*   prices, aep           thousandths of a price  (1.100   = 1100)       *)
(*   profitLoss, money     thousandths of a dollar (50.00   = 50000)      *)
(* so that the source's 0.001 tolerance is one unit and toFixed(2) /       *)
(* toFixed(3) are real roundings.  Quotients are kept as exact fractions   *)
(* [num, den]; binary floating-point noise is not modelled.                *)
(***************************************************************************)
EXTENDS Integers, Sequences, FiniteSets, TLC

VARIABLES
    component,      \* which copy of periodData runs: "Analytics" or "part_002"
    trades,         \* backtestData.trades, the parsed ledger (never written)
    marketData,     \* backtestData.marketData, the price bars
    pc,             \* "idle" | "replay" | "done": position of the useMemo callback
    sortedTrades,   \* the sorted copy that the loop shifts (indices into trades)
    openOrderMap,   \* Record<string,[lots, price]> in Object.keys order
    position,       \* let position
    closedProfit,   \* let closedProfit
    barIdx,         \* index of the bar marketData.map is visiting
    periodData,     \* the records returned so far
    applied,        \* history: one entry per shifted trade, in order
    backtestData,   \* the context's backtestData: null or a report; its trades
                    \* and marketData arrays are the variables above
    error,          \* FileUploader's error state: "null" or the message
    isLoading,      \* FileUploader's isLoading state
    call,           \* the handleFile call in flight, if any
    detached,       \* the other handleFile calls in flight, in start order
    settled,        \* history: how the last handleFile call ended
    run,            \* number of the current run of the useMemo callback
    previous,       \* history: inputs and records of the run before this one
    markToMarketData,   \* TradeCharts: whether the effect has run for the
                        \* report, and the series it built
    activeTab,      \* Dashboard's activeTab: "history" | "analytics"
    selectedTradeType,  \* Dashboard's selectedTradeType, TradeTable's filter
    currentPage,    \* currentPage of the table of the active tab
    pageSize,       \* pageSize of the table of the active tab
    fromDate,       \* Analytics' fromDate: NoDate or a day
    toDate          \* Analytics' toDate: NoDate or a day

\* the state of the presentation components
viewVars == <<markToMarketData, activeTab, selectedTradeType, currentPage,
              pageSize, fromDate, toDate>>

\* the state outside the useMemo callback
outerVars == <<backtestData, error, isLoading, call, detached, settled, run, previous,
               markToMarketData, activeTab, selectedTradeType, currentPage,
               pageSize, fromDate, toDate>>

vars == <<component, trades, marketData, pc, sortedTrades, openOrderMap,
          position, closedProfit, barIdx, periodData, applied,
          backtestData, error, isLoading, call, detached, settled, run, previous,
          markToMarketData, activeTab, selectedTradeType, currentPage,
          pageSize, fromDate, toDate>>

----------------------------------------------------------------------------
(* Bounds of the enumerated inputs *)

MaxTrades == 3
MaxBars == 2
MaxRuns == 2
MaxRows == 2
MaxLines == 2
\* handleFile calls in flight at the same time
MaxCalls == 2
ListLen == 52
Times == {1, 2}

----------------------------------------------------------------------------
(* The ledger as extractTrades emits it *)

\* parseFloat(trade.open): extractTrades always writes open: '1'
OpenField == 1000

\* type.toUpperCase() of the four labels the MT4 filter lets through
TradeTypes == {"BUY", "SELL", "T/P", "S/L"}

\* parseFloat(trade.price): the execution price quoted at a ledger time
PriceAt(t) == 1000 + 100 * t

\* parseFloat(trade.profitLoss): a take-profit row carries a gain, a
\* stop-loss row a loss; the replay never reads the field of an open row
ProfitLossOf(ty) ==
    CASE ty = "T/P" -> 50000
      [] ty = "S/L" -> -20000
      [] OTHER -> 0

TradeRow(t, ty) ==
    [time |-> t, type |-> ty, price |-> PriceAt(t),
     profitLoss |-> ProfitLossOf(ty), open |-> OpenField]

Ledgers ==
    UNION { [1..n -> {TradeRow(t, ty) : t \in Times, ty \in TradeTypes}]
            : n \in 0..MaxTrades }

\* A bar of the price series (timestamp, close, conversionFx)
BarAt(t) == [timestamp |-> t, close |-> 1050 + 100 * t, conversionFx |-> 100]

IsAscending(bars) ==
    \A i \in 1..Len(bars) - 1 : bars[i].timestamp <= bars[i + 1].timestamp

BarSeries ==
    { b \in UNION { [1..n -> {BarAt(t) : t \in Times}] : n \in 0..MaxBars }
        : IsAscending(b) }

\* Inputs of the valuation checks: ledgers of opens and take-profits, and
\* bars that close below or above the price quoted at their time, the low
\* ones with a second conversion factor
ValuationLedgers ==
    UNION { [1..n -> {TradeRow(t, ty) : t \in Times, ty \in {"BUY", "SELL", "T/P"}}]
            : n \in 0..MaxTrades }

BarLow(t) == [timestamp |-> t, close |-> 950 + 100 * t, conversionFx |-> 320]

ValuationBars ==
    { b \in UNION { [1..n -> {BarAt(t) : t \in Times} \cup {BarLow(t) : t \in Times}]
                    : n \in 0..MaxBars }
        : IsAscending(b) }

\* new Date(undefined).getTime() and parseFloat(undefined)
NaN == -1

\* Inputs of the malformed-record checks: a buy row whose time cell holds no
\* date.  new Date(time).toISOString() throws for the first and for the last
\* row of the ledger, so a report is stored only when both are dates
MalformedRow == [TradeRow(1, "BUY") EXCEPT !.time = NaN]

MalformedLedgers ==
    { l \in UNION { [1..n -> {TradeRow(t, ty) : t \in Times, ty \in {"BUY", "SELL", "T/P"}}
                              \cup {MalformedRow}] : n \in 0..MaxTrades }
        : l # <<>> => (l[1].time # NaN /\ l[Len(l)].time # NaN) }

\* Inputs of the metrics checks: besides the usual rows, a stop-loss row
\* whose loss exceeds the starting balance and a take-profit row that breaks
\* even; a ledger holds at most one row of the large loss
LargeLossRow == [TradeRow(2, "S/L") EXCEPT !.profitLoss = -150000000]

BreakEvenRow == [TradeRow(2, "T/P") EXCEPT !.profitLoss = 0]

MetricsRows ==
    {TradeRow(1, "BUY"), TradeRow(1, "SELL"), TradeRow(2, "T/P"),
     TradeRow(2, "S/L"), LargeLossRow, BreakEvenRow}

MetricsLedgers ==
    { l \in UNION { [1..n -> MetricsRows] : n \in 0..MaxTrades }
        : Cardinality({ i \in 1..Len(l) : l[i] = LargeLossRow }) <= 1 }

----------------------------------------------------------------------------
(* The upload: the rows extractTrades finds in the file, and the lines of   *)
(* the price response                                                       *)

\* the ledgers extractTrades can return for an uploaded file, the empty one
\* included
UploadLedgers ==
    UNION { [1..n -> {TradeRow(t, ty) : t \in Times, ty \in TradeTypes}]
            : n \in 0..MaxRows }

\* the conversion factor of a line without one (130.932, in thousandths)
FallbackFx == 130932

\* A line of the response text after trim().split('\n'):
\*   "bar"     a JSON object with time, close and conversionFx
\*   "text"    not JSON (the empty text included): JSON.parse throws
\*   "null"    the JSON literal null: reading item.time throws
\*   "object"  a JSON object without the fields of a bar, e.g. {"error": "..."}
\*   "bar without fx"   a bar whose conversionFx is missing (or 0, null, "")
\*   "bar with bad fx"  a bar whose conversionFx is a text that is no number
ResponseLines ==
    {[kind |-> "bar", time |-> t] : t \in Times}
        \cup {[kind |-> k, time |-> 0] : k \in {"text", "null", "object"}}

\* what fetch and response.ok / response.text() can give
Responses ==
    {[status |-> "network error", lines |-> <<>>],
     [status |-> "not ok", lines |-> <<>>]}
        \cup {[status |-> "ok", lines |-> l] :
                 l \in UNION { [1..n -> ResponseLines] : n \in 1..MaxLines }}

\* Inputs of the conversion-factor checks: bars with, without and with an
\* unparseable conversion factor
FxLines ==
    {[kind |-> k, time |-> t] :
        k \in {"bar", "bar without fx", "bar with bad fx"}, t \in Times}

\* the files dropped in the interleaving checks: one without trades, one
\* with an open trade, one with a closed trade
DropFiles ==
    {<<>>,
     <<TradeRow(1, "BUY")>>,
     <<TradeRow(1, "BUY"), TradeRow(2, "T/P")>>}

\* the responses of the interleaving checks: the fetch fails or brings one bar
DropResponses ==
    {[status |-> "not ok", lines |-> <<>>],
     [status |-> "ok", lines |-> <<[kind |-> "bar", time |-> 1]>>]}

FxResponses ==
    {[status |-> "ok", lines |-> l] :
        l \in UNION { [1..n -> FxLines] : n \in 1..MaxLines }}

\* the null the map callback returns from its catch
NullItem == [timestamp |-> NaN, close |-> NaN, conversionFx |-> 0]

\* the callback of text.trim().split('\n').map: JSON.parse and the object
\* literal, or null when either throws
ParseLine(line) ==
    CASE line.kind = "bar" -> BarAt(line.time)
      [] line.kind = "bar without fx" ->
            [BarAt(line.time) EXCEPT !.conversionFx = FallbackFx]
      [] line.kind = "bar with bad fx" ->
            [BarAt(line.time) EXCEPT !.conversionFx = NaN]
      [] line.kind = "object" ->
            [timestamp |-> NaN, close |-> NaN, conversionFx |-> FallbackFx]
      [] OTHER -> NullItem

IsNotNull(item) == item # NullItem

\* .map(...).filter(item => item !== null)
ParseLines(lines) ==
    SelectSeq([i \in 1..Len(lines) |-> ParseLine(lines[i])], IsNotNull)

----------------------------------------------------------------------------
(* Pure helpers *)

\* String.prototype.toLowerCase on the labels of the ledger
toLowerCase(s) ==
    CASE s = "BUY" -> "buy"
      [] s = "SELL" -> "sell"
      [] s = "T/P" -> "t/p"
      [] s = "S/L" -> "s/l"
      [] OTHER -> s

Abs(x) == IF x < 0 THEN -x ELSE x

\* a / b rounded to the nearest integer, halves away from zero (b > 0)
RoundDiv(a, b) ==
    LET m == Abs(a)
        q == (m \div b) + (IF 2 * (m % b) >= b THEN 1 ELSE 0)
    IN  IF a >= 0 THEN q ELSE -q

\* Number(x.toFixed(2)) on a value held in thousandths
toFixed2(x) == 10 * RoundDiv(x, 10)

\* Number((n/d).toFixed(2)) on a fraction of thousandths
toFixed2Frac(f) == 10 * RoundDiv(f.num, 10 * f.den)

\* Number((n/d).toFixed(3)) on a fraction of thousandths
toFixed3Frac(f) == RoundDiv(f.num, f.den)

RECURSIVE Gcd(_, _)
Gcd(a, b) == IF b = 0 THEN a ELSE Gcd(b, a % b)

\* the fraction n/d in lowest terms with a positive denominator
Frac(n, d) ==
    LET g == Gcd(Abs(n), Abs(d))
        s == IF d < 0 THEN -1 ELSE 1
    IN  [num |-> s * (n \div g), den |-> s * (d \div g)]

----------------------------------------------------------------------------
(* The sorted copy of the ledger *)

\* mutant of CompareTrades: equal times are ordered by type, opens first
CompareTradesOpensFirst(a, b) ==
    IF a.time # b.time THEN a.time - b.time
    ELSE (IF a.type \in {"BUY", "SELL"} THEN 0 ELSE 1)
         - (IF b.type \in {"BUY", "SELL"} THEN 0 ELSE 1)

\* the comparator handed to sort: new Date(a.time).getTime() - new Date(b.time).getTime()
CompareTrades(a, b) == a.time - b.time

\* one step of a stable sort: index i goes behind every element that the
\* comparator does not place after it
InsertStable(s, i, ts) ==
    LET k == Cardinality({ j \in 1..Len(s) : CompareTrades(ts[s[j]], ts[i]) <= 0 })
    IN  SubSeq(s, 1, k) \o <<i>> \o SubSeq(s, k + 1, Len(s))

RECURSIVE SortPrefix(_, _)
SortPrefix(ts, n) ==
    IF n = 0 THEN <<>> ELSE InsertStable(SortPrefix(ts, n - 1), n, ts)

\* [...backtestData.trades].sort(...): Array.prototype.sort is stable
SortedCopy(ts) == SortPrefix(ts, Len(ts))

\* the orders sort may leave the copy in: with a time that is no date the
\* comparator returns NaN, it is not a consistent comparator and the order
\* is implementation-defined
SortOutcomes(ts) ==
    IF \E i \in 1..Len(ts) : ts[i].time = NaN
    THEN { s \in [1..Len(ts) -> 1..Len(ts)] :
             \A i, j \in 1..Len(ts) : s[i] = s[j] => i = j }
    ELSE {SortedCopy(ts)}

----------------------------------------------------------------------------
(* The effect of TradeCharts on the price bars *)

\* the orders of the indices 1..n, as sequences
IndexOrders(n) ==
    { s \in [1..n -> 1..n] : \A i, j \in 1..n : s[i] = s[j] => i = j }

\* the place of index i in the stable ascending order of the keys: behind
\* every smaller key and every equal key of a smaller index
Rank(keys, i) ==
    Cardinality({ j \in 1..Len(keys) :
                    keys[j] < keys[i] \/ (keys[j] = keys[i] /\ j <= i) })

\* the indices in the stable ascending order of their keys
StableOrder(keys) ==
    [k \in 1..Len(keys) |-> CHOOSE i \in 1..Len(keys) : Rank(keys, i) = k]

\* the orders .sort((a, b) => a.key - b.key) may leave a list in: the stable
\* ascending order, or, with a key that is NaN, any order
KeySortOutcomes(keys) ==
    IF \E i \in 1..Len(keys) : keys[i] = NaN
    THEN IndexOrders(Len(keys))
    ELSE {StableOrder(keys)}

\* a list put in the order of a permutation of its indices
Reordered(list, order) == [i \in 1..Len(list) |-> list[order[i]]]

\* the fallback of the chart: data.conversionFx || 130.6, in thousandths
ChartFallbackFx == 130600

\* data.conversionFx || 130.6: 0 and NaN are falsy
ChartConvertFX(data) ==
    IF data.conversionFx \in {0, NaN} THEN ChartFallbackFx ELSE data.conversionFx

\* the callback of marketData.map; the timestamps of the series are whole
\* seconds, which Math.floor(data.timestamp / 1000) keeps apart
ChartPoint(data) ==
    [time |-> data.timestamp, value |-> data.close, convertFX |-> ChartConvertFX(data)]

\* filter((item, index, self) => index === self.findIndex(t => t.time === item.time)):
\* the first point of every time stays; NaN === NaN is false, so a point
\* without a time finds no index and goes
DedupByTime(points) ==
    LET kept == { n \in 1..Len(points) :
                    /\ points[n].time # NaN
                    /\ \A j \in 1..(n - 1) : points[j].time # points[n].time }
    IN  [k \in 1..Cardinality(kept) |->
            points[CHOOSE n \in kept :
                      Cardinality({ j \in kept : j <= n }) = k]]

\* the mark-to-market series the effect can build from the sorted bars
ChartSeries(bars) ==
    LET points == [i \in 1..Len(bars) |-> ChartPoint(bars[i])]
    IN  { DedupByTime(Reordered(points, o)) :
            o \in KeySortOutcomes([i \in 1..Len(points) |-> points[i].time]) }

----------------------------------------------------------------------------
(* The open-order map: a sequence of entries in Object.keys order.  src is    *)
(* history only: the ledger index of the trade whose assignment wrote the    *)
(* entry's value.                                                            *)

Keys(orders) == { orders[i].key : i \in 1..Len(orders) }

KeyIndex(orders, k) == CHOOSE i \in 1..Len(orders) : orders[i].key = k

\* openOrderMap[trade.time] = [lots, price]: an existing key keeps its place
\* and has its value replaced, a new key goes last
AssignOrder(orders, k, lots, price, src) ==
    LET e == [key |-> k, lots |-> lots, price |-> price, src |-> src]
    IN  IF k \in Keys(orders)
        THEN [orders EXCEPT ![KeyIndex(orders, k)] = e]
        ELSE Append(orders, e)

\* mutant of OldestIndex: the close takes the newest lot
NewestIndex(orders) == Len(orders)

\* Object.keys(openOrderMap)[0]: the place of the first key
OldestIndex(orders) == 1

\* delete openOrderMap[orderKey]
DeleteOrder(orders, i) ==
    SubSeq(orders, 1, i - 1) \o SubSeq(orders, i + 1, Len(orders))

\* mutant of Direction: every lot is taken for a long one
DirectionLong(orderLots) == 1

\* const direction = orderLots > 0 ? 1 : -1
Direction(orderLots) == IF orderLots > 0 THEN 1 ELSE -1

RECURSIVE SumLots(_)
SumLots(orders) ==
    IF orders = <<>> THEN 0 ELSE Head(orders).lots + SumLots(Tail(orders))

RECURSIVE SumPL(_)
SumPL(orders) ==
    IF orders = <<>> THEN 0
    ELSE Head(orders).lots * Head(orders).price + SumPL(Tail(orders))

\* mutant of calculateAverageEntryPrice: the weights lose their sign
calculateAverageEntryPriceAbs(orders) ==
    IF Abs(SumLots(orders)) > 1
    THEN Frac(SumPL(orders), Abs(SumLots(orders)))
    ELSE Frac(0, 1)

\* Math.abs(sumLots) > 0.001 ? sumPL / sumLots : 0
calculateAverageEntryPrice(orders) ==
    IF Abs(SumLots(orders)) > 1
    THEN Frac(SumPL(orders), SumLots(orders))
    ELSE Frac(0, 1)

\* mutant of Floating: the amount is left in the quote currency
FloatingUnconverted(data, aep, pos) ==
    IF Abs(pos) > 1
    THEN Frac((data.close * aep.den - aep.num) * pos * 100, aep.den)
    ELSE Frac(0, 1)

\* mutant of Floating: the price difference is taken the other way round
FloatingInverted(data, aep, pos) ==
    IF Abs(pos) > 1
    THEN Frac((aep.num - data.close * aep.den) * pos * 100,
              aep.den * data.conversionFx)
    ELSE Frac(0, 1)

\* Math.abs(position) > 0.001 ? ((data.close - aep) * position * 100000) / data.conversionFx : 0
Floating(data, aep, pos) ==
    IF Abs(pos) > 1
    THEN Frac((data.close * aep.den - aep.num) * pos * 100,
              aep.den * data.conversionFx)
    ELSE Frac(0, 1)

----------------------------------------------------------------------------
(* calculateMetrics.  The strings of the Metrics object are kept as numbers:  *)
(* money and ratios in thousandths, winRate and maxDrawdown in thousandths   *)
(* of a percent, without the '$' and '%' signs.                              *)

\* parseFloat(trade.profitLoss || '0')
ProfitLoss(tr) == tr.profitLoss

RECURSIVE SumProfitLoss(_)
SumProfitLoss(ts) ==
    IF ts = <<>> THEN 0 ELSE ProfitLoss(Head(ts)) + SumProfitLoss(Tail(ts))

\* mutant of IsClosedTrade: only the take-profit rows count as closed
IsClosedTradeTakeProfit(tr) == toLowerCase(tr.type) = "t/p"

\* t.type.toLowerCase() === 't/p' || t.type.toLowerCase() === 's/l'
IsClosedTrade(tr) == toLowerCase(tr.type) \in {"t/p", "s/l"}

\* parseFloat(t.profitLoss || '0') > 0
IsProfit(tr) == ProfitLoss(tr) > 0

\* parseFloat(t.profitLoss || '0') < 0
IsLoss(tr) == ProfitLoss(tr) < 0

\* a / b > c / d for fractions with positive denominators
FracGreater(f, g) == f.num * g.den > g.num * f.den

\* peak > 0 ? ((peak - balance) / peak) * 100 : 0, kept as the exact ratio
\* (peak - balance) / peak; Percent gives it the factor 100
Drawdown(peak, balance) ==
    IF peak > 0 THEN Frac(peak - balance, peak) ELSE Frac(0, 1)

\* a ratio as a percentage, in thousandths of a percent
Percent(r) == Frac(r.num * 100000, r.den)

\* let balance = 100000, in thousandths
StartingBalance == 100000000

\* the end of an iteration: if (drawdown > maxDrawdown) maxDrawdown = drawdown
UpdateMaxDrawdown(before, peak, balance) ==
    LET drawdown == Drawdown(peak, balance)
    IN  [maxDrawdown |-> IF FracGreater(drawdown, before.maxDrawdown)
                         THEN drawdown ELSE before.maxDrawdown,
         peak |-> peak,
         balance |-> balance]

\* mutant of DrawdownLoop: maxDrawdown holds the drawdown of the last trade
RECURSIVE DrawdownLoopLast(_, _)
DrawdownLoopLast(ts, n) ==
    IF n = 0
    THEN [maxDrawdown |-> Frac(0, 1), peak |-> 0, balance |-> StartingBalance]
    ELSE LET before == DrawdownLoopLast(ts, n - 1)
             balance == before.balance + ProfitLoss(ts[n])
             peak == IF balance > before.peak THEN balance ELSE before.peak
         IN  [maxDrawdown |-> Drawdown(peak, balance),
              peak |-> peak,
              balance |-> balance]

\* the body of the for loop over the trades, for one trade
DrawdownStep(before, trade) ==
    LET balance == before.balance + ProfitLoss(trade)
    IN  IF balance > before.peak
        THEN UpdateMaxDrawdown(before, balance, balance)
        ELSE UpdateMaxDrawdown(before, before.peak, balance)

\* the iterations lo..hi of the for loop, entered with the locals in
\* `before`: the trades are visited in ledger order, the range being split
\* in two keeps the evaluation shallow for a long ledger
RECURSIVE DrawdownRange(_, _, _, _)
DrawdownRange(ts, lo, hi, before) ==
    IF lo > hi THEN before
    ELSE IF lo = hi THEN DrawdownStep(before, ts[lo])
    ELSE LET mid == (lo + hi) \div 2
             half == DrawdownRange(ts, lo, mid, before)
         IN  IF half.balance = half.balance
             THEN DrawdownRange(ts, mid + 1, hi, half)
             ELSE before

\* the loop over the trades: maxDrawdown, peak and balance after n trades
DrawdownLoop(ts, n) ==
    DrawdownRange(ts, 1, n,
        [maxDrawdown |-> Frac(0, 1), peak |-> 0, balance |-> StartingBalance])

\* mutant of ProfitFactor: the profit is divided by the gross turnover
ProfitFactorOfTurnover(totalProfit, totalLoss) ==
    IF totalLoss = 0 THEN toFixed2(totalProfit)
    ELSE toFixed2Frac(Frac(totalProfit * 1000, totalProfit + totalLoss))

\* (totalLoss === 0 ? totalProfit : totalProfit / totalLoss).toFixed(2)
ProfitFactor(totalProfit, totalLoss) ==
    IF totalLoss = 0 THEN toFixed2(totalProfit)
    ELSE toFixed2Frac(Frac(totalProfit * 1000, totalLoss))

calculateMetrics(ts) ==
    LET closedTrades == SelectSeq(ts, IsClosedTrade)
        totalClosedTrades == IF Len(closedTrades) = 0 THEN 1 ELSE Len(closedTrades)
        winningTrades == Len(SelectSeq(closedTrades, IsProfit))
        losingTrades == Len(SelectSeq(closedTrades, IsLoss))
        profits == SelectSeq(ts, IsProfit)
        losses == SelectSeq(ts, IsLoss)
        totalProfit == SumProfitLoss(profits)
        totalLoss == Abs(SumProfitLoss(losses))
    IN  [totalTrades |-> Len(ts),
         winningTrades |-> winningTrades,
         losingTrades |-> losingTrades,
         winRate |-> 100 * RoundDiv(winningTrades * 1000, totalClosedTrades),
         totalProfitLoss |-> toFixed2(SumProfitLoss(ts)),
         avgProfit |-> IF Len(profits) > 0
                       THEN toFixed2Frac(Frac(totalProfit, Len(profits))) ELSE 0,
         avgLoss |-> IF Len(losses) > 0
                     THEN toFixed2Frac(Frac(SumProfitLoss(losses), Len(losses))) ELSE 0,
         maxDrawdown |-> toFixed2Frac(Percent(DrawdownLoop(ts, Len(ts)).maxDrawdown)),
         profitFactor |-> ProfitFactor(totalProfit, totalLoss),
         sharpRatio |-> 1800]

\* a report in the context: its metrics, and whether its marketData is null
Report(metrics, marketDataIsNull) ==
    [isNull |-> FALSE, marketDataIsNull |-> marketDataIsNull, metrics |-> metrics]

\* useState<BacktestData | null>(null)
NullData == [isNull |-> TRUE]

NoCall == [stage |-> "none"]

\* the effect of TradeCharts has not run for the report in the context
NotRendered == [rendered |-> FALSE, series |-> <<>>]

\* useState('') of fromDate and toDate
NoDate == 0

\* the presentation state with the tables freshly mounted: useState(1) and
\* useState(50) of the tables, useState("T/P") of the Dashboard.  The
\* Dashboard is never unmounted, so its activeTab is whatever the user left
\* it at
ViewInit(tab) ==
    /\ markToMarketData = NotRendered
    /\ activeTab = tab
    /\ selectedTradeType = "T/P"
    /\ currentPage = 1
    /\ pageSize = 50
    /\ fromDate = NoDate
    /\ toDate = NoDate

----------------------------------------------------------------------------
(* The two copies of the switch differ in the labels of the close branch *)

CloseCases(c) ==
    IF c = "Analytics" THEN {"t/p", "s/l"} ELSE {"t/p", "close at stop"}

\* mutant of TradeDue: the head trade is due only strictly before the bar
TradeDueStrict(tradeTime, timestamp) == tradeTime < timestamp

\* mutant of TradeDue: the loop drains the whole sorted copy at the first bar
TradeDueAlways(tradeTime, timestamp) == TRUE

\* new Date(sortedTrades[0].time) <= timestamp: no date is at or before an
\* invalid one, and an invalid date is at or before none
TradeDue(tradeTime, timestamp) ==
    timestamp # NaN /\ tradeTime # NaN /\ tradeTime <= timestamp

HeadTrade == trades[Head(sortedTrades)]

\* the condition of the while loop for the bar being visited
LoopCond ==
    /\ sortedTrades # <<>>
    /\ TradeDue(HeadTrade.time, marketData[barIdx].timestamp)

\* the history entry of the trade being shifted: its ledger index and the
\* position state its case leaves behind
Shifted(pos, orders, closed) ==
    Append(applied, [idx |-> Head(sortedTrades), position |-> pos,
                     orders |-> orders, closedProfit |-> closed])

----------------------------------------------------------------------------
(* Initial states and steps *)

InitFrom(c, ledgers, series) ==
    /\ component = c
    /\ trades \in ledgers
    /\ marketData \in series
    /\ pc = "idle"
    /\ sortedTrades = <<>>
    /\ openOrderMap = <<>>
    /\ position = 0
    /\ closedProfit = 0
    /\ barIdx = 1
    /\ periodData = <<>>
    /\ applied = <<>>
    /\ backtestData = Report(calculateMetrics(trades), FALSE)
    /\ error = "null"
    /\ isLoading = FALSE
    /\ call = NoCall
    /\ detached = <<>>
    /\ settled = NoCall
    /\ run = 1
    /\ previous = [trades |-> <<>>, marketData |-> <<>>, periodData |-> <<>>]
    /\ ViewInit("analytics")

InitWith(c) == InitFrom(c, Ledgers, BarSeries)

Init == InitWith("Analytics")

InitLegacy == InitWith("part_002")

InitValuation == InitFrom("Analytics", ValuationLedgers, ValuationBars)

InitMetrics == InitFrom("Analytics", MetricsLedgers, BarSeries)

InitMalformed == InitFrom("Analytics", MalformedLedgers, BarSeries)

\* mutant of RunLocals: the three locals live outside the callback and keep
\* what the run before left in them
RunLocalsKept(orders, pos, closed) ==
    [openOrderMap |-> orders, position |-> pos, closedProfit |-> closed]

\* const openOrderMap = {}; let position = 0; let closedProfit = 0: the
\* locals of a run, given what the run before left in its own
RunLocals(orders, pos, closed) ==
    [openOrderMap |-> <<>>, position |-> 0, closedProfit |-> 0]

\* mutant of NoMarketData: the guard only asks for backtestData
NoMarketDataNullOnly(data) == data.isNull

\* !backtestData || !backtestData.marketData (an array when it is not null)
NoMarketData(data) == data.isNull \/ data.marketDataIsNull

\* the body of the useMemo callback up to marketData.map; Analytics is
\* rendered only while backtestData is not null
StartReplay ==
    /\ pc = "idle"
    /\ ~backtestData.isNull
    /\ activeTab = "analytics"
    /\ IF NoMarketData(backtestData)
       THEN sortedTrades' = <<>>
       ELSE sortedTrades' \in SortOutcomes(trades)
    /\ LET locals == RunLocals(openOrderMap, position, closedProfit)
       IN  /\ openOrderMap' = locals.openOrderMap
           /\ position' = locals.position
           /\ closedProfit' = locals.closedProfit
    /\ barIdx' = 1
    /\ periodData' = <<>>
    /\ applied' = <<>>
    /\ pc' = IF NoMarketData(backtestData) THEN "done"
             ELSE IF backtestData.marketDataIsNull THEN "failed"
             ELSE IF Len(marketData) = 0 THEN "done"
             ELSE "replay"
    /\ UNCHANGED <<component, trades, marketData>>
    /\ UNCHANGED outerVars

\* Analytics is mounted again (the tab is left and entered): the callback
\* runs once more on the same backtestData
Remount ==
    /\ pc = "done"
    /\ run < MaxRuns
    /\ run' = run + 1
    /\ previous' = [trades |-> trades, marketData |-> marketData,
                    periodData |-> periodData]
    /\ pc' = "idle"
    /\ UNCHANGED <<component, trades, marketData, sortedTrades, openOrderMap,
                   position, closedProfit, barIdx, periodData, applied,
                   backtestData, error, isLoading, call, detached, settled>>
    /\ UNCHANGED viewVars

\* case 'buy'
ApplyBuy ==
    /\ pc = "replay"
    /\ LoopCond
    /\ toLowerCase(HeadTrade.type) = "buy"
    /\ LET lots == HeadTrade.open
           price == HeadTrade.price
       IN  /\ position' = toFixed2(position + lots)
           /\ openOrderMap' = AssignOrder(openOrderMap, HeadTrade.time, lots, price,
                                          Head(sortedTrades))
    /\ sortedTrades' = Tail(sortedTrades)
    /\ applied' = Shifted(position', openOrderMap', closedProfit)
    /\ UNCHANGED <<component, trades, marketData, pc, closedProfit, barIdx, periodData>>
    /\ UNCHANGED outerVars

\* case 'sell'
ApplySell ==
    /\ pc = "replay"
    /\ LoopCond
    /\ toLowerCase(HeadTrade.type) = "sell"
    /\ LET lots == HeadTrade.open
           price == HeadTrade.price
       IN  /\ position' = toFixed2(position - lots)
           /\ openOrderMap' = AssignOrder(openOrderMap, HeadTrade.time, -lots, price,
                                          Head(sortedTrades))
    /\ sortedTrades' = Tail(sortedTrades)
    /\ applied' = Shifted(position', openOrderMap', closedProfit)
    /\ UNCHANGED <<component, trades, marketData, pc, closedProfit, barIdx, periodData>>
    /\ UNCHANGED outerVars

\* case 't/p' and the copy's second close label
ApplyClose ==
    /\ pc = "replay"
    /\ LoopCond
    /\ toLowerCase(HeadTrade.type) \in CloseCases(component)
    /\ IF openOrderMap # <<>>
       THEN LET i == OldestIndex(openOrderMap)
                direction == Direction(openOrderMap[i].lots)
            IN  /\ position' = toFixed2(position - direction * HeadTrade.open)
                /\ openOrderMap' = DeleteOrder(openOrderMap, i)
                /\ closedProfit' = closedProfit + HeadTrade.profitLoss
       ELSE UNCHANGED <<position, openOrderMap, closedProfit>>
    /\ sortedTrades' = Tail(sortedTrades)
    /\ applied' = Shifted(position', openOrderMap', closedProfit')
    /\ UNCHANGED <<component, trades, marketData, pc, barIdx, periodData>>
    /\ UNCHANGED outerVars

\* a label no case of the switch names: the trade is shifted and dropped
ApplyUnmatched ==
    /\ pc = "replay"
    /\ LoopCond
    /\ toLowerCase(HeadTrade.type) \notin {"buy", "sell"} \cup CloseCases(component)
    /\ sortedTrades' = Tail(sortedTrades)
    /\ applied' = Shifted(position, openOrderMap, closedProfit)
    /\ UNCHANGED <<component, trades, marketData, pc, openOrderMap, position,
                   closedProfit, barIdx, periodData>>
    /\ UNCHANGED outerVars

\* mutant of PeriodRecord: every record quotes the first bar of the series
PeriodRecordFirstBar(data, aep, floating, pos, closed) ==
    [time |-> data.timestamp,
     timestamp |-> data.timestamp,
     position |-> pos,
     closed |-> toFixed2(closed),
     aep |-> toFixed3Frac(aep),
     eoPeriodPrice |-> marketData[1].close,
     convertFX |-> marketData[1].conversionFx,
     open |-> toFixed2Frac(floating),
     total |-> toFixed2Frac(Frac(floating.num + closed * floating.den,
                                 floating.den))]

\* the object the map callback returns for a bar
PeriodRecord(data, aep, floating, pos, closed) ==
    [time |-> data.timestamp,
     timestamp |-> data.timestamp,
     position |-> pos,
     closed |-> toFixed2(closed),
     aep |-> toFixed3Frac(aep),
     eoPeriodPrice |-> data.close,
     convertFX |-> data.conversionFx,
     open |-> toFixed2Frac(floating),
     total |-> toFixed2Frac(Frac(floating.num + closed * floating.den,
                                 floating.den))]

\* the rest of the map callback: value the bar and return its record
EmitRecord ==
    /\ pc = "replay"
    /\ ~LoopCond
    /\ marketData[barIdx].timestamp # NaN
    /\ LET data == marketData[barIdx]
           aep == calculateAverageEntryPrice(openOrderMap)
           floating == Floating(data, aep, position)
       IN  periodData' = Append(periodData,
               PeriodRecord(data, aep, floating, position, closedProfit))
    /\ barIdx' = barIdx + 1
    /\ pc' = IF barIdx = Len(marketData) THEN "done" ELSE "replay"
    /\ UNCHANGED <<component, trades, marketData, sortedTrades, openOrderMap,
                   position, closedProfit, applied>>
    /\ UNCHANGED outerVars

\* timestamp.toISOString() on an invalid date throws a RangeError out of
\* the map callback: the run returns nothing
EmitThrows ==
    /\ pc = "replay"
    /\ ~LoopCond
    /\ marketData[barIdx].timestamp = NaN
    /\ pc' = "failed"
    /\ periodData' = <<>>
    /\ UNCHANGED <<component, trades, marketData, sortedTrades, openOrderMap,
                   position, closedProfit, barIdx, applied>>
    /\ UNCHANGED outerVars

----------------------------------------------------------------------------
(* FileUploader.handleFile and parseBacktestHtml.  The uploader is rendered *)
(* only while backtestData is null.                                         *)

\* the metrics of the report the catch block of handleFile sets
EmptyMetrics ==
    [totalTrades |-> 0, winningTrades |-> 0, losingTrades |-> 0, winRate |-> 0,
     totalProfitLoss |-> 0, avgProfit |-> 0, avgLoss |-> 0, maxDrawdown |-> 0,
     profitFactor |-> 0, sharpRatio |-> 0]

InitUploadAt(tab) ==
    /\ component = "Analytics"
    /\ trades = <<>>
    /\ marketData = <<>>
    /\ pc = "idle"
    /\ sortedTrades = <<>>
    /\ openOrderMap = <<>>
    /\ position = 0
    /\ closedProfit = 0
    /\ barIdx = 1
    /\ periodData = <<>>
    /\ applied = <<>>
    /\ backtestData = NullData
    /\ error = "null"
    /\ isLoading = FALSE
    /\ call = NoCall
    /\ detached = <<>>
    /\ settled = NoCall
    /\ run = 1
    /\ previous = [trades |-> <<>>, marketData |-> <<>>, periodData |-> <<>>]
    /\ ViewInit(tab)

\* no report yet; the Dashboard was left on the analytics tab
InitUpload == InitUploadAt("analytics")

\* no report yet, in a Dashboard on the tab it starts with
InitFx == InitUploadAt("history")

\* the useMemo locals and records of an Analytics that has not rendered for
\* the report in the context
ReplayReset ==
    /\ pc' = "idle"
    /\ sortedTrades' = <<>>
    /\ openOrderMap' = <<>>
    /\ position' = 0
    /\ closedProfit' = 0
    /\ barIdx' = 1
    /\ periodData' = <<>>
    /\ applied' = <<>>

\* setBacktestData(report): the effect of TradeCharts is due again; the
\* tables are mounted with fresh state when there was no report, and keep
\* their state when there was one
ViewOnReport ==
    /\ markToMarketData' = NotRendered
    /\ currentPage' = IF backtestData.isNull THEN 1 ELSE currentPage
    /\ pageSize' = IF backtestData.isNull THEN 50 ELSE pageSize
    /\ fromDate' = IF backtestData.isNull THEN NoDate ELSE fromDate
    /\ toDate' = IF backtestData.isNull THEN NoDate ELSE toDate
    /\ UNCHANGED <<activeTab, selectedTradeType>>

\* the tables and the chart are unmounted or mounted anew
ViewFresh ==
    /\ markToMarketData' = NotRendered
    /\ currentPage' = 1
    /\ pageSize' = 50
    /\ fromDate' = NoDate
    /\ toDate' = NoDate
    /\ UNCHANGED <<activeTab, selectedTradeType>>

\* handleFile with a file that is not text/html
HandleFileNotHtml ==
    /\ backtestData.isNull
    /\ call.stage = "none"
    /\ error' = "Please upload an HTML file"
    /\ UNCHANGED <<component, trades, marketData, pc, sortedTrades, openOrderMap,
                   position, closedProfit, barIdx, periodData, applied,
                   backtestData, isLoading, call, detached, settled, run, previous>>
    /\ UNCHANGED viewVars

\* the calls go on without their FileUploader once it is unmounted
Orphan(calls) ==
    [i \in 1..Len(calls) |-> [calls[i] EXCEPT !.orphan = TRUE]]

\* a call is started while others are in flight: none of those is the one
\* started last any more
Overtaken ==
    [i \in 1..Len(detached) |-> [detached[i] EXCEPT !.latest = FALSE]]
        \o (IF call.stage = "none" THEN <<>>
            ELSE <<[call |-> call, orphan |-> FALSE, latest |-> FALSE]>>)

\* handleFile up to the await, with a file of `files`: the file is the
\* ledger extractTrades will find in it.  Nothing in handleFile looks at
\* the calls still in flight
StartCall(files) ==
    /\ Len(Overtaken) < MaxCalls
    /\ \E rows \in files :
          call' = [stage |-> "reading", rows |-> rows]
    /\ detached' = Overtaken
    /\ isLoading' = TRUE
    /\ error' = "null"
    /\ UNCHANGED <<component, trades, marketData, pc, sortedTrades, openOrderMap,
                   position, closedProfit, barIdx, periodData, applied,
                   backtestData, settled, run, previous>>
    /\ UNCHANGED viewVars

\* handleFileChange: the Select File button is disabled while isLoading
HandleFileOf(files) ==
    /\ backtestData.isNull
    /\ ~isLoading
    /\ StartCall(files)

HandleFile == HandleFileOf(UploadLedgers)

\* handleDrop: the drop zone takes a file whatever isLoading is
handleDrop ==
    /\ backtestData.isNull
    /\ StartCall(DropFiles)

\* the promise is rejected: catch and finally of handleFile
Rejected(message) ==
    /\ error' = message
    /\ backtestData' = Report(EmptyMetrics, TRUE)
    /\ trades' = <<>>
    /\ marketData' = <<>>
    /\ isLoading' = FALSE
    /\ settled' = [stage |-> "rejected", rows |-> call.rows, message |-> message,
                   latest |-> TRUE]
    /\ call' = NoCall
    /\ detached' = Orphan(detached)
    /\ pc # "replay"
    /\ ReplayReset
    /\ ViewOnReport
    /\ UNCHANGED <<component, run, previous>>

\* reader.onerror
ReaderError ==
    /\ call.stage = "reading"
    /\ Rejected("Failed to read the file")

\* reader.onload with no trade extracted: the throw, the outer catch, reject
OnLoadNoTrades ==
    /\ call.stage = "reading"
    /\ Len(call.rows) = 0
    /\ Rejected("Failed to parse the backtest file. Please check the format.")

\* reader.onload with trades: the metrics are computed and the fetch is issued
OnLoadFetch ==
    /\ call.stage = "reading"
    /\ Len(call.rows) # 0
    /\ call' = [stage |-> "fetching", rows |-> call.rows,
                metrics |-> calculateMetrics(call.rows)]
    /\ UNCHANGED <<component, trades, marketData, pc, sortedTrades, openOrderMap,
                   position, closedProfit, barIdx, periodData, applied,
                   backtestData, error, isLoading, detached, settled, run, previous>>
    /\ UNCHANGED viewVars

\* the fetch settles and the promise resolves, with the parsed bars or with
\* marketData: null; handleFile validates the result and sets it
FetchSettlesOf(responses) ==
    /\ call.stage = "fetching"
    /\ pc # "replay"
    /\ \E response \in responses :
          /\ settled' = [stage |-> "resolved", rows |-> call.rows,
                         response |-> response, latest |-> TRUE]
          /\ IF Len(call.rows) = 0
             THEN /\ error' = "Invalid backtest data: No trades found"
                  /\ backtestData' = Report(EmptyMetrics, TRUE)
                  /\ trades' = <<>>
                  /\ marketData' = <<>>
             ELSE /\ error' = error
                  /\ backtestData' = Report(call.metrics, response.status # "ok")
                  /\ trades' = call.rows
                  /\ marketData' = IF response.status = "ok"
                                   THEN ParseLines(response.lines) ELSE <<>>
    /\ isLoading' = FALSE
    /\ call' = NoCall
    /\ detached' = Orphan(detached)
    /\ ReplayReset
    /\ ViewOnReport
    /\ UNCHANGED <<component, run, previous>>

FetchSettles == FetchSettlesOf(Responses)

\* reader.onload of a detached call with trades
DetachedOnLoadFetch ==
    /\ \E i \in 1..Len(detached) :
          /\ detached[i].call.stage = "reading"
          /\ Len(detached[i].call.rows) # 0
          /\ detached' = [detached EXCEPT ![i].call =
                              [stage |-> "fetching", rows |-> @.rows,
                               metrics |-> calculateMetrics(@.rows)]]
    /\ UNCHANGED <<component, trades, marketData, pc, sortedTrades, openOrderMap,
                   position, closedProfit, barIdx, periodData, applied,
                   backtestData, error, isLoading, call, settled, run, previous>>
    /\ UNCHANGED viewVars

\* the ways the promise of call c can settle: rejected by reader.onerror or
\* by the throw for a file without trades, or resolved when the fetch settles
SettleOutcomes(c, responses) ==
    IF c.stage = "reading"
    THEN {[stage |-> "rejected", rows |-> c.rows,
           message |-> "Failed to read the file"]}
         \cup (IF Len(c.rows) = 0
               THEN {[stage |-> "rejected", rows |-> c.rows,
                      message |-> "Failed to parse the backtest file. Please check the format."]}
               ELSE {})
    ELSE {[stage |-> "resolved", rows |-> c.rows, response |-> r,
           metrics |-> c.metrics] : r \in responses}

\* a detached call settles: setBacktestData acts on the context whichever
\* FileUploader started the call, setError and setIsLoading act only on a
\* FileUploader that is still mounted.  The report unmounts the FileUploader
DetachedSettles(responses) ==
    /\ pc # "replay"
    /\ \E i \in 1..Len(detached) :
       \E outcome \in SettleOutcomes(detached[i].call, responses) :
          /\ settled' = IF outcome.stage = "rejected"
                        THEN [stage |-> "rejected", rows |-> outcome.rows,
                              message |-> outcome.message,
                              latest |-> detached[i].latest]
                        ELSE [stage |-> "resolved", rows |-> outcome.rows,
                              response |-> outcome.response,
                              latest |-> detached[i].latest]
          /\ IF outcome.stage = "rejected"
             THEN /\ backtestData' = Report(EmptyMetrics, TRUE)
                  /\ trades' = <<>>
                  /\ marketData' = <<>>
                  /\ error' = IF detached[i].orphan THEN error ELSE outcome.message
             ELSE /\ backtestData' = Report(outcome.metrics,
                                            outcome.response.status # "ok")
                  /\ trades' = outcome.rows
                  /\ marketData' = IF outcome.response.status = "ok"
                                   THEN ParseLines(outcome.response.lines) ELSE <<>>
                  /\ error' = error
          /\ isLoading' = IF detached[i].orphan THEN isLoading ELSE FALSE
          /\ detached' = Orphan(
                 [j \in 1..(Len(detached) - 1) |->
                     IF j < i THEN detached[j] ELSE detached[j + 1]]
                 \o (IF call.stage = "none" THEN <<>>
                     ELSE <<[call |-> call, orphan |-> TRUE, latest |-> TRUE]>>))
    /\ call' = NoCall
    /\ ReplayReset
    /\ ViewOnReport
    /\ UNCHANGED <<component, run, previous>>

\* TradeSummary's handleNewUpload: the report goes, Analytics is unmounted
\* and a new FileUploader is mounted
NewUpload ==
    /\ ~backtestData.isNull
    /\ pc # "replay"
    /\ backtestData' = NullData
    /\ trades' = <<>>
    /\ marketData' = <<>>
    /\ pc' = "idle"
    /\ sortedTrades' = <<>>
    /\ openOrderMap' = <<>>
    /\ position' = 0
    /\ closedProfit' = 0
    /\ barIdx' = 1
    /\ periodData' = <<>>
    /\ applied' = <<>>
    /\ error' = "null"
    /\ isLoading' = FALSE
    /\ settled' = NoCall
    /\ ViewFresh
    /\ UNCHANGED <<component, call, detached, run, previous>>

\* the useEffect of TradeCharts, run once for the report in the context
\* after the render that shows it: without a closed trade it returns
\* early; otherwise it sorts backtestData.marketData in place and builds
\* the mark-to-market series from it
RenderCharts ==
    /\ ~backtestData.isNull
    /\ ~markToMarketData.rendered
    /\ pc \notin {"replay", "failed"}
    /\ activeTab = "analytics" => pc # "idle"
    /\ IF SelectSeq(trades, IsClosedTrade) = <<>>
       THEN /\ markToMarketData' = [rendered |-> TRUE, series |-> <<>>]
            /\ marketData' = marketData
       ELSE \E o \in KeySortOutcomes([i \in 1..Len(marketData) |->
                                         marketData[i].timestamp]) :
               /\ marketData' = Reordered(marketData, o)
               /\ \E series \in ChartSeries(Reordered(marketData, o)) :
                     markToMarketData' = [rendered |-> TRUE, series |-> series]
    /\ UNCHANGED <<component, trades, pc, sortedTrades, openOrderMap, position,
                   closedProfit, barIdx, periodData, applied, backtestData,
                   error, isLoading, call, detached, settled, run, previous, activeTab,
                   selectedTradeType, currentPage, pageSize, fromDate, toDate>>

\* handleTabChange with the other tab: the table shown is unmounted and the
\* other one mounted, Analytics with its useMemo still to run
handleTabChange ==
    /\ ~backtestData.isNull
    /\ markToMarketData.rendered
    /\ pc \notin {"replay", "failed"}
    /\ activeTab = "analytics" => pc # "idle"
    /\ activeTab' = IF activeTab = "history" THEN "analytics" ELSE "history"
    /\ ReplayReset
    /\ currentPage' = 1
    /\ pageSize' = 50
    /\ fromDate' = NoDate
    /\ toDate' = NoDate
    /\ UNCHANGED <<component, trades, marketData, backtestData, error, isLoading,
                   call, detached, settled, run, previous, markToMarketData,
                   selectedTradeType>>

NextUpload ==
    \/ HandleFileNotHtml
    \/ HandleFile
    \/ ReaderError
    \/ OnLoadNoTrades
    \/ OnLoadFetch
    \/ FetchSettles
    \/ NewUpload
    \/ StartReplay
    \/ ApplyBuy
    \/ ApplySell
    \/ ApplyClose
    \/ EmitRecord
    \/ EmitThrows

SpecUpload == InitUpload /\ [][NextUpload]_vars

----------------------------------------------------------------------------
(* The two paginated tables: TradeTable on the history tab, the period     *)
(* table of Analytics on the analytics tab.  Only one of them is mounted,  *)
(* so currentPage and pageSize are those of the table of the active tab.   *)

\* Inputs of the pagination checks: a ledger long enough for a second page
\* at the page size the tables start with (buy, take-profit, sell,
\* take-profit, ... one row per day), and one bar per day
PagingLedger ==
    [i \in 1..ListLen |->
        TradeRow(i, CASE i % 4 = 1 -> "BUY" [] i % 4 = 3 -> "SELL" [] OTHER -> "T/P")]

PagingBars == [t \in 1..ListLen |-> BarAt(t)]

\* the two reports of the pagination checks: the long ledger without a
\* price series (the fetch failed), and a short ledger with the long series
PagingReports ==
    {[trades |-> PagingLedger, marketData |-> <<>>, marketDataIsNull |-> TRUE],
     [trades |-> <<TradeRow(1, "BUY"), TradeRow(2, "T/P"), TradeRow(3, "SELL")>>,
      marketData |-> PagingBars, marketDataIsNull |-> FALSE]}

\* the days the user can put into the date inputs
DayChoices == {NoDate, 1, ListLen}

\* the options of the filter select: the two custom filters and the types
\* found in the ledger
FilterOptions == {"ALL", "CLOSED"} \cup { trades[i].type : i \in 1..Len(trades) }

\* the options of the page-size selects
PageSizeOptions(tab) ==
    IF tab = "history" THEN {10, 50, 100} ELSE {10, 50, 100, 300}

\* filteredTrades of TradeTable
FilteredTrades ==
    LET Shown(tr) ==
            IF selectedTradeType = "CLOSED" THEN tr.type \in {"S/L", "T/P"}
            ELSE IF selectedTradeType # "ALL" THEN tr.type = selectedTradeType
            ELSE TRUE
    IN  SelectSeq(trades, Shown)

\* filteredData of Analytics; a bar lies within its day
filteredData ==
    LET Shown(period) ==
            /\ (fromDate = NoDate \/ period.timestamp >= fromDate)
            /\ (toDate = NoDate \/ period.timestamp <= toDate)
    IN  IF fromDate = NoDate /\ toDate = NoDate THEN periodData
        ELSE SelectSeq(periodData, Shown)

\* the list the table of the active tab pages over
PagedList == IF activeTab = "history" THEN FilteredTrades ELSE filteredData

\* Math.ceil(list.length / pageSize)
totalPages == (Len(PagedList) + pageSize - 1) \div pageSize

\* list.slice(indexOfFirst, indexOfLast)
CurrentSlice ==
    LET indexOfLast == currentPage * pageSize
        indexOfFirst == indexOfLast - pageSize
        last == IF indexOfLast < Len(PagedList) THEN indexOfLast ELSE Len(PagedList)
    IN  SubSeq(PagedList, indexOfFirst + 1, last)

\* the table of the active tab is on the screen: TradeTable returns null
\* for an empty ledger, Analytics has rendered once its useMemo has run
TableShown ==
    /\ ~backtestData.isNull
    /\ markToMarketData.rendered
    /\ IF activeTab = "history" THEN Len(trades) > 0 ELSE pc = "done"

PagingInit ==
    /\ component = "Analytics"
    /\ \E report \in PagingReports :
          /\ trades = report.trades
          /\ marketData = report.marketData
          /\ backtestData = Report(calculateMetrics(report.trades),
                                   report.marketDataIsNull)
    /\ pc = "idle"
    /\ sortedTrades = <<>>
    /\ openOrderMap = <<>>
    /\ position = 0
    /\ closedProfit = 0
    /\ barIdx = 1
    /\ periodData = <<>>
    /\ applied = <<>>
    /\ error = "null"
    /\ isLoading = FALSE
    /\ call = NoCall
    /\ detached = <<>>
    /\ settled = NoCall
    /\ run = 1
    /\ previous = [trades |-> <<>>, marketData |-> <<>>, periodData |-> <<>>]
    /\ markToMarketData \in { [rendered |-> TRUE, series |-> x] : x \in ChartSeries(marketData) }
    /\ activeTab = "history"
    /\ selectedTradeType = "T/P"
    /\ currentPage = 1
    /\ pageSize = 50
    /\ fromDate = NoDate
    /\ toDate = NoDate

\* onClick of the next button: rendered when totalPages > 1, disabled on
\* the last page
NextPage ==
    /\ TableShown
    /\ totalPages > 1
    /\ currentPage # totalPages
    /\ currentPage' = IF currentPage + 1 < totalPages THEN currentPage + 1 ELSE totalPages
    /\ UNCHANGED <<component, trades, marketData, pc, sortedTrades, openOrderMap,
                   position, closedProfit, barIdx, periodData, applied,
                   backtestData, error, isLoading, call, detached, settled, run, previous,
                   markToMarketData, activeTab, selectedTradeType, pageSize,
                   fromDate, toDate>>

\* onClick of the previous button: rendered when totalPages > 1, disabled
\* on page 1
PreviousPage ==
    /\ TableShown
    /\ totalPages > 1
    /\ currentPage # 1
    /\ currentPage' = IF currentPage - 1 > 1 THEN currentPage - 1 ELSE 1
    /\ UNCHANGED <<component, trades, marketData, pc, sortedTrades, openOrderMap,
                   position, closedProfit, barIdx, periodData, applied,
                   backtestData, error, isLoading, call, detached, settled, run, previous,
                   markToMarketData, activeTab, selectedTradeType, pageSize,
                   fromDate, toDate>>

\* the page-size select, rendered when totalPages > 1
handlePageSizeChange ==
    /\ TableShown
    /\ totalPages > 1
    /\ \E newSize \in PageSizeOptions(activeTab) :
          /\ newSize # pageSize
          /\ pageSize' = newSize
    /\ currentPage' = 1
    /\ UNCHANGED <<component, trades, marketData, pc, sortedTrades, openOrderMap,
                   position, closedProfit, barIdx, periodData, applied,
                   backtestData, error, isLoading, call, detached, settled, run, previous,
                   markToMarketData, activeTab, selectedTradeType, fromDate,
                   toDate>>

\* onChange of the filter select of TradeTable
setSelectedTradeType ==
    /\ TableShown
    /\ activeTab = "history"
    /\ \E type \in FilterOptions :
          /\ type # selectedTradeType
          /\ selectedTradeType' = type
    /\ UNCHANGED <<component, trades, marketData, pc, sortedTrades, openOrderMap,
                   position, closedProfit, barIdx, periodData, applied,
                   backtestData, error, isLoading, call, detached, settled, run, previous,
                   markToMarketData, activeTab, currentPage, pageSize, fromDate,
                   toDate>>

\* onChange of the From input of Analytics
setFromDate ==
    /\ TableShown
    /\ activeTab = "analytics"
    /\ \E day \in DayChoices :
          /\ day # fromDate
          /\ fromDate' = day
    /\ UNCHANGED <<component, trades, marketData, pc, sortedTrades, openOrderMap,
                   position, closedProfit, barIdx, periodData, applied,
                   backtestData, error, isLoading, call, detached, settled, run, previous,
                   markToMarketData, activeTab, selectedTradeType, currentPage,
                   pageSize, toDate>>

\* onChange of the To input of Analytics
setToDate ==
    /\ TableShown
    /\ activeTab = "analytics"
    /\ \E day \in DayChoices :
          /\ day # toDate
          /\ toDate' = day
    /\ UNCHANGED <<component, trades, marketData, pc, sortedTrades, openOrderMap,
                   position, closedProfit, barIdx, periodData, applied,
                   backtestData, error, isLoading, call, detached, settled, run, previous,
                   markToMarketData, activeTab, selectedTradeType, currentPage,
                   pageSize, fromDate>>

NextPaging ==
    \/ handleTabChange
    \/ setSelectedTradeType
    \/ setFromDate
    \/ setToDate
    \/ NextPage
    \/ PreviousPage
    \/ handlePageSizeChange
    \/ StartReplay
    \/ ApplyBuy
    \/ ApplySell
    \/ ApplyClose
    \/ EmitRecord

SpecPaging == PagingInit /\ [][NextPaging]_vars

\* the upload with the chart and the tabs
NextCharts ==
    \/ NextUpload
    \/ RenderCharts
    \/ handleTabChange

SpecCharts == InitUpload /\ [][NextCharts]_vars

\* the upload and the chart on the history tab, over bars with and without
\* a conversion factor
NextFx ==
    \/ HandleFileNotHtml
    \/ HandleFile
    \/ ReaderError
    \/ OnLoadNoTrades
    \/ OnLoadFetch
    \/ FetchSettlesOf(FxResponses)
    \/ NewUpload
    \/ RenderCharts

SpecFx == InitFx /\ [][NextFx]_vars

\* uploads by the button and by drops, overlapping
NextDrop ==
    \/ HandleFileNotHtml
    \/ HandleFileOf(DropFiles)
    \/ handleDrop
    \/ ReaderError
    \/ OnLoadNoTrades
    \/ OnLoadFetch
    \/ FetchSettlesOf(DropResponses)
    \/ DetachedOnLoadFetch
    \/ DetachedSettles(DropResponses)
    \/ NewUpload
    \/ RenderCharts

SpecDrop == InitFx /\ [][NextDrop]_vars

\* every label of the ledger has a case in Analytics.tsx, so its switch
\* never falls through
Next ==
    \/ StartReplay
    \/ ApplyBuy
    \/ ApplySell
    \/ ApplyClose
    \/ EmitRecord

NextLegacy ==
    \/ StartReplay
    \/ ApplyBuy
    \/ ApplySell
    \/ ApplyClose
    \/ ApplyUnmatched
    \/ EmitRecord

Spec == Init /\ [][Next]_vars

SpecLegacy == InitLegacy /\ [][NextLegacy]_vars

SpecValuation == InitValuation /\ [][Next]_vars

SpecMetrics == InitMetrics /\ [][Next]_vars

SpecMalformed == InitMalformed /\ [][Next]_vars

NextRerun ==
    \/ Next
    \/ Remount

SpecRerun == Init /\ [][NextRerun]_vars

----------------------------------------------------------------------------
(* Vocabulary of the properties *)

\* an Open trade of the ledger (Long or Short)
IsOpen(tr) == tr.type \in {"BUY", "SELL"}

\* a Close trade of the ledger (TakeProfit or StopLoss)
IsClose(tr) == tr.type \in {"T/P", "S/L"}

\* the k-th trade the loop shifted, and the position state it found
AppliedTrade(k) == trades[applied[k].idx]
PositionBefore(k) == IF k = 1 THEN 0 ELSE applied[k - 1].position
OrdersBefore(k) == IF k = 1 THEN <<>> ELSE applied[k - 1].orders
ClosedBefore(k) == IF k = 1 THEN 0 ELSE applied[k - 1].closedProfit

AppliedSet == { applied[k].idx : k \in 1..Len(applied) }

\* the loop has run dry for the bar being visited: its record is computed next
AtValuation == pc = "replay" /\ ~LoopCond

RECURSIVE SumClosePnL(_)
SumClosePnL(n) ==
    IF n = 0 THEN 0
    ELSE SumClosePnL(n - 1)
         + (IF IsClose(AppliedTrade(n)) THEN AppliedTrade(n).profitLoss ELSE 0)

----------------------------------------------------------------------------
\* C1: after every applied trade the running net position equals the sum
\* of the signed lots of the entries in the open-lot map.
C1_NetPositionIsSumOfLots ==
    /\ position = SumLots(openOrderMap)
    /\ \A k \in 1..Len(applied) : applied[k].position = SumLots(applied[k].orders)

\* C2: an orphan close (no open lot) leaves the net position unchanged and
\* still adds its realized P&L, so at every bar's valuation closedProfit is
\* the sum of the realized P&L of all close trades applied so far.
C2_OrphanCloseStillRealizesPnL ==
    /\ \A k \in 1..Len(applied) :
          (IsClose(AppliedTrade(k)) /\ OrdersBefore(k) = <<>>)
              => applied[k].position = PositionBefore(k)
    /\ AtValuation => closedProfit = SumClosePnL(Len(applied))

\* the place in the applied order of the trade with ledger index i
AppliedAt(i) == CHOOSE k \in 1..Len(applied) : applied[k].idx = i

Lots(orders) == { orders[i] : i \in 1..Len(orders) }

\* the lot of the map whose trade was applied first
EarliestLot(orders) ==
    CHOOSE e \in Lots(orders) :
        \A f \in Lots(orders) : AppliedAt(e.src) <= AppliedAt(f.src)

\* C3: a close removes the open lot inserted earliest among those still
\* open and no later one; in particular after two opens O1, O2 and one
\* close only O2's lot remains and the average entry price is O2's price.
C3_FifoCloseMatching ==
    /\ \A k \in 1..Len(applied) :
          (IsClose(AppliedTrade(k)) /\ OrdersBefore(k) # <<>>)
              => Lots(applied[k].orders)
                     = Lots(OrdersBefore(k)) \ {EarliestLot(OrdersBefore(k))}
    /\ (/\ Len(applied) >= 3
        /\ IsOpen(AppliedTrade(1))
        /\ IsOpen(AppliedTrade(2))
        /\ IsClose(AppliedTrade(3)))
          => /\ Len(applied[3].orders) = 1
             /\ applied[3].orders[1].src = applied[2].idx
             /\ calculateAverageEntryPrice(applied[3].orders)
                    = Frac(AppliedTrade(2).price, 1)

\* C4: with the bars in ascending timestamp order, when a bar's record is
\* computed the applied trades are exactly the ledger trades whose time is
\* at or before the bar's timestamp.
C4_TradesAppliedUpToBar ==
    (AtValuation /\ IsAscending(marketData))
        => AppliedSet = { i \in DOMAIN trades :
                            trades[i].time <= marketData[barIdx].timestamp }

\* C4 witness: a bar is about to be valued with a trade of its own
\* timestamp applied and a later trade still waiting.
C4_Witness ==
    /\ AtValuation
    /\ \E i \in AppliedSet : trades[i].time = marketData[barIdx].timestamp
    /\ \E i \in DOMAIN trades : trades[i].time > marketData[barIdx].timestamp
    /\ barIdx = 1

\* C5: every ledger trade is applied at most once, in ascending time
\* order, trades of equal time in their ledger order.
C5_AppliedOnceInStableTimeOrder ==
    \A k, l \in 1..Len(applied) :
        k < l => \/ AppliedTrade(k).time < AppliedTrade(l).time
                 \/ /\ AppliedTrade(k).time = AppliedTrade(l).time
                    /\ applied[k].idx < applied[l].idx

\* C5 witness: a ledger that is not in time order has been applied in full,
\* with a close listed before an open of the same time.
C5_Witness ==
    /\ Len(applied) = 3
    /\ trades[1].time > trades[3].time
    /\ trades[1].time = trades[2].time
    /\ IsClose(trades[1])
    /\ IsOpen(trades[2])

\* the effect the close branch has on a non-empty map: the first lot goes,
\* the position moves against that lot's sign, the P&L is realized
ClosedOldest(k) ==
    LET before == OrdersBefore(k)
        sign == IF Head(before).lots > 0 THEN 1 ELSE -1
    IN  /\ applied[k].orders = Tail(before)
        /\ applied[k].position = PositionBefore(k) - sign * AppliedTrade(k).open
        /\ applied[k].closedProfit = ClosedBefore(k) + AppliedTrade(k).profitLoss

\* C6: in every copy of the replay a stop-loss close ('S/L') is handled
\* like a take-profit close: with a lot open it removes the oldest lot,
\* reduces the net position and realizes its P&L.
C6_StopLossHandledLikeTakeProfit ==
    \A k \in 1..Len(applied) :
        (AppliedTrade(k).type = "S/L" /\ OrdersBefore(k) # <<>>)
            => ClosedOldest(k)

\* C7: every open inserts a new lot under a key above all keys in the map:
\* the map grows by one and no existing lot is replaced.
C7_OpenInsertsNewLot ==
    \A k \in 1..Len(applied) :
        IsOpen(AppliedTrade(k))
            => /\ Len(applied[k].orders) = Len(OrdersBefore(k)) + 1
               /\ SubSeq(applied[k].orders, 1, Len(OrdersBefore(k))) = OrdersBefore(k)
               /\ \A e \in Lots(OrdersBefore(k)) :
                      e.key < applied[k].orders[Len(applied[k].orders)].key

\* C8: a close applied with a lot open removes exactly the oldest lot, in
\* full, and moves the net position by -direction * close.lots, direction
\* being the sign of the removed lot.
C8_CloseRemovesOldestLot ==
    \A k \in 1..Len(applied) :
        (IsClose(AppliedTrade(k)) /\ OrdersBefore(k) # <<>>)
            => LET before == OrdersBefore(k)
                   sign == IF Head(before).lots > 0 THEN 1 ELSE -1
               IN  /\ applied[k].orders = Tail(before)
                   /\ applied[k].position
                          = PositionBefore(k) - sign * AppliedTrade(k).open

\* C8 witness: a close has been applied to a map holding a short lot
\* followed by a long lot.
C8_Witness ==
    \E k \in 1..Len(applied) :
        /\ IsClose(AppliedTrade(k))
        /\ Len(OrdersBefore(k)) = 2
        /\ OrdersBefore(k)[1].lots < 0
        /\ OrdersBefore(k)[2].lots > 0

\* an open applied k-th and, right behind it, a close applied (k+1)-th
OpenThenClose(k) ==
    /\ k + 1 <= Len(applied)
    /\ IsOpen(AppliedTrade(k))
    /\ IsClose(AppliedTrade(k + 1))

\* the signed direction an open trade gives its lot
OpenSign(tr) == IF tr.type = "BUY" THEN 1 ELSE -1

\* C9 as stated: for every open immediately followed by a close, whatever
\* lots were open before, the net position after the close is the net
\* position before the open (within 0.001).
C9_PositionReturnsAfterPair ==
    \A k \in 1..Len(applied) :
        OpenThenClose(k)
            => Abs(applied[k + 1].position - PositionBefore(k)) <= 1

\* C9 amended: for every open immediately followed by a close, if the
\* oldest open lot at the close has the direction of the opened trade, the
\* net position after the close is the net position before the open
\* (within 0.001).
C9_PositionReturnsWhenOldestLotAgrees ==
    \A k \in 1..Len(applied) :
        (/\ OpenThenClose(k)
         /\ Head(applied[k].orders).lots * OpenSign(AppliedTrade(k)) > 0)
            => Abs(applied[k + 1].position - PositionBefore(k)) <= 1

\* C9 witness: a sell and the close right behind it were applied while an
\* older short lot was open.
C9_Witness ==
    \E k \in 1..Len(applied) :
        /\ OpenThenClose(k)
        /\ AppliedTrade(k).type = "SELL"
        /\ Len(applied[k].orders) = 2
        /\ applied[k].orders[1].lots < 0
        /\ PositionBefore(k) # 0

\* C10 as stated: for every open immediately followed by a close, the
\* average entry price computed right after the open is the open's price.
C10_AepAfterOpenIsOpenPrice ==
    \A k \in 1..Len(applied) :
        OpenThenClose(k)
            => calculateAverageEntryPrice(applied[k].orders)
                   = Frac(AppliedTrade(k).price, 1)

\* C10 amended: for every open immediately followed by a close, if the
\* open's lot is the only lot in the map, the average entry price computed
\* right after the open is the open's price.
C10_AepAfterOpenOfOnlyLot ==
    \A k \in 1..Len(applied) :
        (OpenThenClose(k) /\ Len(applied[k].orders) = 1)
            => calculateAverageEntryPrice(applied[k].orders)
                   = Frac(AppliedTrade(k).price, 1)

\* C10 witness: a sell was applied to an empty map and closed right after.
C10_Witness ==
    \E k \in 1..Len(applied) :
        /\ OpenThenClose(k)
        /\ AppliedTrade(k).type = "SELL"
        /\ OrdersBefore(k) = <<>>
        /\ Len(applied[k].orders) = 1

----------------------------------------------------------------------------
\* the timestamp of the last bar of the series
LastBarTime == marketData[Len(marketData)].timestamp

\* the last record the run returned
LastRecord == periodData[Len(periodData)]

\* C11: trades whose time is later than the last bar's timestamp are never
\* applied: when the run has ended it has returned one record per bar, the
\* trades applied are ledger trades at or before the last bar's timestamp,
\* the later ones are still on the sorted copy, and the last record carries
\* the position and closed P&L the applied trades produced.
C11_TradesAfterLastBarNeverApplied ==
    (pc = "done" /\ marketData # <<>> /\ IsAscending(marketData))
        => /\ Len(periodData) = Len(marketData)
           /\ \A i \in AppliedSet : trades[i].time <= LastBarTime
           /\ \A i \in DOMAIN trades :
                  trades[i].time > LastBarTime
                      => \E j \in 1..Len(sortedTrades) : sortedTrades[j] = i
           /\ LastRecord.position
                  = (IF applied = <<>> THEN 0 ELSE applied[Len(applied)].position)
           /\ LastRecord.closed
                  = toFixed2(IF applied = <<>> THEN 0
                             ELSE applied[Len(applied)].closedProfit)

\* C11 witness: the run has ended with an open applied and a take-profit
\* dated after the last bar left on the sorted copy, the position still open.
C11_Witness ==
    /\ pc = "done"
    /\ marketData # <<>>
    /\ Len(applied) = 1
    /\ IsOpen(AppliedTrade(1))
    /\ sortedTrades # <<>>
    /\ trades[Head(sortedTrades)].type = "T/P"
    /\ trades[Head(sortedTrades)].time > LastBarTime
    /\ LastRecord.position # 0
    /\ LastRecord.closed = 0

----------------------------------------------------------------------------
\* C12: the replay returns exactly one record per bar, in the order of the
\* bars, each with its bar's timestamp, close price and conversion factor;
\* when the run has ended there are as many records as bars, whatever the
\* length of the ledger.
C12_OneRecordPerBarInOrder ==
    /\ pc = "replay" => Len(periodData) = barIdx - 1
    /\ pc = "done" => Len(periodData) = Len(marketData)
    /\ \A j \in 1..Len(periodData) :
          /\ periodData[j].timestamp = marketData[j].timestamp
          /\ periodData[j].time = marketData[j].timestamp
          /\ periodData[j].eoPeriodPrice = marketData[j].close
          /\ periodData[j].convertFX = marketData[j].conversionFx

\* C12 witness: the run over two bars of different close and conversion
\* factor has ended for a ledger of three trades, one of them never applied.
C12_Witness ==
    /\ pc = "done"
    /\ Len(trades) = 3
    /\ Len(applied) = 2
    /\ Len(periodData) = 2
    /\ marketData[1].close # marketData[2].close
    /\ marketData[1].conversionFx # marketData[2].conversionFx

----------------------------------------------------------------------------
Sign(x) == IF x > 0 THEN 1 ELSE IF x < 0 THEN -1 ELSE 0

\* the ledger of the end-to-end scenario: Open Long 1 lot, then Close
\* TakeProfit 1 lot at a later time
IsLongThenTakeProfit(ts) ==
    /\ Len(ts) = 2
    /\ ts[1].type = "BUY"
    /\ ts[1].open = 1000
    /\ ts[2].type = "T/P"
    /\ ts[2].open = 1000
    /\ ts[1].time < ts[2].time

----------------------------------------------------------------------------
\* C14: the replay is deterministic and restartable: a second run on the
\* same backtestData finds the ledger and the price series as the first run
\* found them and returns the same sequence of records.
C14_RerunYieldsSameRecords ==
    run > 1
        => /\ trades = previous.trades
           /\ marketData = previous.marketData
           /\ pc = "done" => periodData = previous.periodData
           /\ \A j \in 1..Len(periodData) : periodData[j] = previous.periodData[j]

\* C14 witness: a second run over two bars has ended, like the first one
\* with a realized P&L and a lot still open.
C14_Witness ==
    /\ run = 2
    /\ pc = "done"
    /\ Len(periodData) = 2
    /\ closedProfit # 0
    /\ position # 0
    /\ openOrderMap # <<>>

----------------------------------------------------------------------------
\* C15: at every bar's valuation the average entry price is 0 exactly when
\* abs(net position) < 0.001, the net position being the one the record
\* reports and the floating P&L uses, and otherwise it is
\* sum(signedLots * entryPrice) / sum(signedLots) over the open lots.
C15_AepSentinelFollowsNetPosition ==
    AtValuation
        => LET aep == calculateAverageEntryPrice(openOrderMap)
           IN  /\ aep = Frac(0, 1) <=> Abs(position) < 1
               /\ Abs(position) >= 1
                     => /\ SumLots(openOrderMap) # 0
                        /\ aep.num * SumLots(openOrderMap)
                               = SumPL(openOrderMap) * aep.den

----------------------------------------------------------------------------
\* C16: for every bar the floating P&L of its record is 0 when
\* abs(net position) < 0.001 and otherwise
\* (close - averageEntryPrice) * netPosition * 100000 / conversionFx with
\* the bar's own close and conversion factor (rounded to 2 decimals in the
\* record).
C16_FloatingPnLFormula ==
    [][EmitRecord
         => LET data == marketData[barIdx]
                aep == calculateAverageEntryPrice(openOrderMap)
                rec == periodData'[Len(periodData')]
            IN  /\ rec.position = position
                /\ rec.open
                     = (IF Abs(position) < 1 THEN 0
                        ELSE toFixed2Frac(
                                 Frac((data.close * aep.den - aep.num) * position * 100,
                                      aep.den * data.conversionFx)))]_vars

\* C16 witness: a record of a bar with the second conversion factor shows a
\* short position of two lots and a floating P&L that is not 0.
C16_Witness ==
    \E j \in 1..Len(periodData) :
        /\ periodData[j].position = -2000
        /\ periodData[j].convertFX = 320
        /\ periodData[j].open # 0
        /\ Len(openOrderMap) = 2

----------------------------------------------------------------------------
\* C17: in every record returned the total equals the record's own floating
\* P&L plus the record's own closed P&L, on the values as emitted (each
\* rounded to 2 decimals).
C17_TotalIsOpenPlusClosed ==
    \A j \in 1..Len(periodData) :
        periodData[j].total = periodData[j].open + periodData[j].closed

----------------------------------------------------------------------------
\* the last handleFile call ended with the promise rejected because
\* extractTrades found no trade
LastFoundNoTrades ==
    /\ settled.stage = "rejected"
    /\ settled.rows = <<>>
    /\ settled.message = "Failed to parse the backtest file. Please check the format."

\* the last handleFile call ended with the promise resolved
LastResolved == settled.stage = "resolved"

\* C18: when no trades are extracted from the uploaded report the failure
\* is surfaced as an error and no report is produced: backtestData stays
\* null, it is not set to an empty report with zeroed metrics.
C18_NoTradesLeavesBacktestDataNull ==
    LastFoundNoTrades
        => /\ error # "null"
           /\ backtestData.isNull


\* the last handleFile call resolved after a failed fetch (network error
\* or a status that is not OK)
LastFetchFailed == LastResolved /\ settled.response.status # "ok"

\* C19: when the price-series fetch fails for a non-empty ledger, parsing
\* still succeeds with the trades and the metrics computed from the
\* ledger, which are those a successful fetch gives; marketData is null
\* and the replay returns an empty sequence without raising an error.
C19_LedgerOnlyMode ==
    /\ LastResolved
          => /\ trades = settled.rows
             /\ backtestData.metrics = calculateMetrics(settled.rows)
    /\ LastFetchFailed
          => /\ ~backtestData.isNull
             /\ backtestData.marketDataIsNull
             /\ trades # <<>>
             /\ error = "null"
             /\ pc \in {"idle", "done"}
             /\ periodData = <<>>

\* C19 witness: the replay has returned for a report of a winning and a
\* losing close whose fetch ended with a status that is not OK.
C19_Witness ==
    /\ LastFetchFailed
    /\ settled.response.status = "not ok"
    /\ pc = "done"
    /\ backtestData.metrics.winningTrades = 1
    /\ backtestData.metrics.losingTrades = 1

\* the bars of the well-formed lines, in the order of the lines
RECURSIVE WellFormedBars(_)
WellFormedBars(lines) ==
    IF lines = <<>> THEN <<>>
    ELSE (IF Head(lines).kind = "bar" THEN <<BarAt(Head(lines).time)>> ELSE <<>>)
             \o WellFormedBars(Tail(lines))

\* C20: a malformed line of the price response is dropped on its own: the
\* bar list holds exactly the bars of the well-formed lines, in their
\* order, and no bar built from a line that is not a bar record (valid
\* JSON that is not a bar object, or that lacks time/close).
C20_MalformedLinesDropped ==
    (LastResolved /\ settled.response.status = "ok")
        => /\ marketData = WellFormedBars(settled.response.lines)
           /\ \A i \in 1..Len(marketData) :
                  /\ marketData[i].timestamp # NaN
                  /\ marketData[i].close # NaN

----------------------------------------------------------------------------
\* C21: a malformed trade record (here: a time that is no date) does not
\* stall the run: when a bar's record is computed, every other trade of the
\* ledger whose time is at or before the bar's timestamp has been applied.
C21_MalformedTradeSkippedLocally ==
    (AtValuation /\ IsAscending(marketData))
        => \A i \in DOMAIN trades :
              (trades[i].time # NaN /\ trades[i].time <= marketData[barIdx].timestamp)
                  => i \in AppliedSet

----------------------------------------------------------------------------
(* The metrics of the report, stated on the ledger itself *)

IsClosedRow(tr) == tr.type \in {"T/P", "S/L"}

ClosedRows == { i \in 1..Len(trades) : IsClosedRow(trades[i]) }

WinningRows == { i \in ClosedRows : trades[i].profitLoss > 0 }

\* the sum of the positive realized P&L values of the first n rows
RECURSIVE GainsUpTo(_)
GainsUpTo(n) ==
    IF n = 0 THEN 0
    ELSE GainsUpTo(n - 1) + (IF trades[n].profitLoss > 0 THEN trades[n].profitLoss ELSE 0)

\* the absolute sum of the negative realized P&L values of the first n rows
RECURSIVE LossesUpTo(_)
LossesUpTo(n) ==
    IF n = 0 THEN 0
    ELSE LossesUpTo(n - 1) + (IF trades[n].profitLoss < 0 THEN -trades[n].profitLoss ELSE 0)

\* the balance after the first n rows, from the starting balance
RECURSIVE BalanceAfter(_)
BalanceAfter(n) ==
    IF n = 0 THEN StartingBalance ELSE BalanceAfter(n - 1) + trades[n].profitLoss

\* the running maximum of the balance series, the starting balance included
RECURSIVE SeededPeak(_)
SeededPeak(n) ==
    IF n = 0 THEN StartingBalance
    ELSE IF BalanceAfter(n) > SeededPeak(n - 1) THEN BalanceAfter(n)
         ELSE SeededPeak(n - 1)

\* (peak - balance) / peak after the first n rows, on the seeded peak
SeededDrawdown(n) == Frac(SeededPeak(n) - BalanceAfter(n), SeededPeak(n))

\* the largest of them over the ledger
MaxSeededDrawdown ==
    CHOOSE f \in { SeededDrawdown(n) : n \in 0..Len(trades) } :
        \A n \in 0..Len(trades) : ~FracGreater(SeededDrawdown(n), f)

----------------------------------------------------------------------------
\* C23: the reported win rate is the number of closed trades (T/P and S/L
\* rows) with realized P&L above 0 divided by max(number of closed trades,
\* 1), as a percentage rounded to one decimal; for a ledger without a
\* closed trade it is 0%.
C23_WinRateOverClosedTrades ==
    ~backtestData.isNull =>
        LET m == backtestData.metrics
            c == IF ClosedRows = {} THEN 1 ELSE Cardinality(ClosedRows)
            w == Cardinality(WinningRows)
        IN  /\ m.winningTrades = w
            /\ Abs(m.winRate * c - 100000 * w) <= 50 * c
            /\ ClosedRows = {} => m.winRate = 0

\* C23 witness: the replay has returned for a ledger of a winning
\* take-profit, a stop-loss with a loss and a take-profit that broke even:
\* one win in three closed trades, reported as 33.3%.
C23_Witness ==
    /\ pc = "done"
    /\ Cardinality(ClosedRows) = 3
    /\ Cardinality(WinningRows) = 1
    /\ \E i \in ClosedRows : trades[i].type = "S/L"
    /\ \E i \in ClosedRows : trades[i].profitLoss = 0
    /\ backtestData.metrics.winRate = 33300

----------------------------------------------------------------------------
\* C24: the reported maxDrawdown is the maximum over the ledger of
\* (peak - balance) / peak, as a percentage rounded to two decimals, where
\* balance starts at 100,000 and adds every row's realized P&L in ledger
\* order and peak is the running maximum of that series with the starting
\* balance as its first value.
C24_MaxDrawdownFromSeededPeak ==
    ~backtestData.isNull =>
        backtestData.metrics.maxDrawdown = toFixed2Frac(Percent(MaxSeededDrawdown))

----------------------------------------------------------------------------
\* C25: while the ledger is scanned the running maximum drawdown is never
\* negative and never goes down from one trade to the next.
C25_RunningMaxDrawdownMonotone ==
    \A n \in 1..Len(trades) :
        LET before == DrawdownLoop(trades, n - 1).maxDrawdown
            after == DrawdownLoop(trades, n).maxDrawdown
        IN  /\ before.num >= 0
            /\ after.num >= 0
            /\ ~FracGreater(before, after)

\* C25 witness: the scan of three rows met a drawdown at the second row and
\* a new peak, with no drawdown, at the third.
C25_Witness ==
    /\ pc = "done"
    /\ Len(trades) = 3
    /\ DrawdownLoop(trades, 2).maxDrawdown.num > 0
    /\ DrawdownLoop(trades, 3).balance = DrawdownLoop(trades, 3).peak
    /\ backtestData.metrics.maxDrawdown > 0

----------------------------------------------------------------------------
\* C26: the reported profitFactor is totalProfit / totalLoss when totalLoss
\* is not 0 and totalProfit when it is 0, rounded to two decimals, where
\* totalProfit is the sum of the positive realized P&L values of the
\* ledger and totalLoss the absolute sum of the negative ones.
C26_ProfitFactor ==
    ~backtestData.isNull =>
        LET m == backtestData.metrics
            totalProfit == GainsUpTo(Len(trades))
            totalLoss == LossesUpTo(Len(trades))
            exact == Frac(totalProfit * 1000, totalLoss)
        IN  IF totalLoss = 0
            THEN m.profitFactor = toFixed2(totalProfit)
            ELSE /\ m.profitFactor % 10 = 0
                 /\ Abs(m.profitFactor * exact.den - exact.num) <= 5 * exact.den

\* C26 witness: the replay has returned for a ledger with gains of 100.00
\* and a loss of 20.00, reported with the factor 5.00.
C26_Witness ==
    /\ pc = "done"
    /\ GainsUpTo(Len(trades)) = 100000
    /\ LossesUpTo(Len(trades)) = 20000
    /\ backtestData.metrics.profitFactor = 5000

----------------------------------------------------------------------------
\* C30: the reported maxDrawdown percentage lies between 0 and 100 for
\* every ledger, also when the losses exceed the starting balance.
C30_MaxDrawdownWithinPercentRange ==
    ~backtestData.isNull =>
        /\ backtestData.metrics.maxDrawdown >= 0
        /\ backtestData.metrics.maxDrawdown <= 100000

----------------------------------------------------------------------------
\* C22: every price bar has a defined conversion factor, and wherever a
\* missing factor is defaulted the same fallback constant is used: every
\* stored bar's factor is a number, and every factor in the chart's series
\* is the stored factor of a bar or the fallback the parser uses.
C22_OneConversionFallback ==
    /\ \A i \in DOMAIN marketData : marketData[i].conversionFx # NaN
    /\ \A k \in DOMAIN markToMarketData.series :
          markToMarketData.series[k].convertFX
              \in { marketData[i].conversionFx : i \in DOMAIN marketData }
                   \cup {FallbackFx}

----------------------------------------------------------------------------
\* C29: rendering TradeCharts leaves backtestData.marketData unchanged:
\* while a report resolved with a price series is shown, the bars are the
\* sequence the parser stored, in its order.
C29_ChartsLeaveMarketDataUnchanged ==
    (~backtestData.isNull /\ LastResolved /\ settled.response.status = "ok"
        /\ Len(settled.rows) > 0)
        => marketData = ParseLines(settled.response.lines)

----------------------------------------------------------------------------
\* C28: after any sequence of next, previous, page-size and filter changes
\* the current page of the table shown lies within 1..max(1, totalPages),
\* and the slice displayed is not empty when the filtered list is not.
C28_CurrentPageWithinRange ==
    TableShown =>
        /\ currentPage >= 1
        /\ currentPage <= (IF totalPages > 1 THEN totalPages ELSE 1)
        /\ PagedList # <<>> => CurrentSlice # <<>>

\* a handleFile call has started and not yet finished
CallInFlight == call.stage # "none" \/ detached # <<>>

\* C27: for any interleaving of uploads started by the button or by drops,
\* isLoading of the FileUploader on the screen is true exactly while some
\* handleFile call is in flight, and once no call is in flight the report
\* stored is the one of the call that was started last.
C27_UploadStateUnderInterleaving ==
    /\ backtestData.isNull => (isLoading <=> CallInFlight)
    /\ (~CallInFlight /\ settled.stage # "none") => settled.latest
====
